---- MODULE Spec2Model ----
(***************************************************************************)
(* A model of the fuzzing controller of pyfuzz (src/pyfuzz/fuzzer/fuzzer.py *)
(* and src/pyfuzz/fuzzer/trace.py): contract loading and caching, reset,   *)
(* the mutation engine, the seed corpus, coverage and the concolic         *)
(* escalation counters.                                                    *)
(*                                                                         *)
(* Python values are modelled by records of one shape each, so that any    *)
(* two of them can be compared: None is a record with valid = FALSE (a     *)
(* State), hash = "None" (an empty slot of txList) or the string "None" (a *)
(* contract, a report, a file name). Lists indexed from 0 are functions    *)
(* over 0..n-1.                                                            *)
(***************************************************************************)
EXTENDS Integers, Sequences, FiniteSets, TLC

VARIABLES
    env,                    \* the collaborators: what they can answer
    opts,                   \* self.opts: concolic, pathCoverage, exploit
    contractMap,            \* self.contractMap: path -> cache entry
    filename,               \* self.filename
    contract,               \* self.contract (the compiled contract, by name)
    contractAbi,            \* self.contractAbi: the ABI object and its seeds
    contractAnalysisReport, \* self.contractAnalysisReport (by contract name)
    mythrilConcolic,        \* self.mythrilConcolic (by contract name)
    state,                  \* self.state
    traces,                 \* self.traces
    report,                 \* self.report (the findings accumulated)
    counter,                \* self.counter
    concolicCnt,            \* self.concolicCnt
    concolicWait,           \* self.concolicWait
    ret,                    \* what the last call of the driving loop returned
    stagnant,               \* history: lengths of the current runs of stagnant steps
    mut,                    \* one call of mutate: its arguments and its outcome
    call                    \* one call of path_variaty or runTxs and what it returned

vars == <<env, opts, contractMap, filename, contract, contractAbi,
          contractAnalysisReport, mythrilConcolic, state, traces, report,
          counter, concolicCnt, concolicWait, ret, stagnant, mut, call>>

fuzzerVars == <<env, opts, contractMap, filename, contract, contractAbi,
                contractAnalysisReport, mythrilConcolic, state, traces, report,
                counter, concolicCnt, concolicWait, ret, stagnant>>

(***************************************************************************)
(* Configuration (pyfuzz.config is read at these lines of fuzzer.py).      *)
(***************************************************************************)
maxCallNum == 2

max_attempt == 2

initial_wait == 2

concolic_penalty == 1

concolic_reward == 2

valid_mutation_reward == 1

path_discovery_reward == 2

exploit_reward == 4

(***************************************************************************)
(* Bounds of the model.                                                    *)
(***************************************************************************)
MaxCounter == 3

MaxCnt == 3

MaxSeedLen == 3

\* the longest list of traces handed to path_variaty
MaxTraces == 2

Idx == 0 .. (maxCallNum - 1)

None == "None"

(***************************************************************************)
(* The contracts the driving loop can load, with what the compiler, the    *)
(* ABI and the static analyzer report about them.                          *)
(*   A: f1() payable, performs an external call, reads x                   *)
(*      f2(uint256) writes x;  f3() writes y;  f4() unknown to the analyzer *)
(*   B: f(uint256), non-payable, no external call: the only function       *)
(***************************************************************************)
Paths == {"A", "B"}

Accounts == {"acc0", "acc1"}

defaultAccount == "acc0"

Values == {0, 1}

ArgVals == {1, 2}

funcHashList(c) ==
    IF c = "A" THEN {"f1", "f2", "f3", "f4"}
    ELSE IF c = "B" THEN {"f"}
    ELSE {}

payable(c, h) == c = "A" /\ h = "f1"

\* the types of the arguments of function h: typedArgs is a list of (type, value)
argTypes(c, h) ==
    IF (c = "A" /\ h = "f2") \/ (c = "B" /\ h = "f") THEN <<"uint256">> ELSE <<>>

func_map(r) ==
    IF r = "A" THEN
        [h \in {"f1", "f2", "f3"} |->
            IF h = "f1" THEN [call |-> 1, vars_read |-> {"x"}, vars_written |-> {}]
            ELSE IF h = "f2" THEN [call |-> 0, vars_read |-> {}, vars_written |-> {"x"}]
            ELSE [call |-> 0, vars_read |-> {}, vars_written |-> {"y"}]]
    ELSE
        [h \in {"f"} |-> [call |-> 0, vars_read |-> {"z"}, vars_written |-> {"z"}]]

\* contract["opcodes"].count("JUMP")
jump_cnt(c) == IF c = "A" THEN 2 ELSE 0

(***************************************************************************)
(* Transactions and States.                                                *)
(***************************************************************************)
NoTx == [hash |-> None, sender |-> None, value |-> 0, args |-> <<>>]

Transaction(h, s, v, a) == [hash |-> h, sender |-> s, value |-> v, args |-> a]

EmptyTxList == [i \in Idx |-> NoTx]

NoState == [valid |-> FALSE, staticAnalysis |-> None, txList |-> EmptyTxList]

State(staticAnalysis, txList) ==
    [valid |-> TRUE, staticAnalysis |-> staticAnalysis, txList |-> txList]

\* the argument lists generateTxArgs can synthesize for function h
generateTxArgs(c, h) ==
    IF Len(argTypes(c, h)) = 0 THEN {<<>>}
    ELSE {<< <<argTypes(c, h)[1], v>> >> : v \in ArgVals}

\* the values generateTxValue can synthesize
generateTxValue(c, h) == Values

\* the transactions generateTx(selectedFuncHash, defaultAccount, seeds) can return
generateTx(c, h) ==
    {Transaction(h, defaultAccount, 0, a) : a \in generateTxArgs(c, h)}

\* every transaction of contract c, and every transaction list over them
AllTx(c) ==
    UNION {{Transaction(h, s, v, a) :
                s \in Accounts,
                v \in (IF payable(c, h) THEN Values ELSE {0}),
                a \in generateTxArgs(c, h)} : h \in funcHashList(c)}

AllTxLists(c) == [Idx -> AllTx(c) \cup {NoTx}]

(***************************************************************************)
(* Fuzzer.mutate. The result is the set of outcomes the call can have (the *)
(* random choices of the code are the members of the set). An outcome is   *)
(*   kind   "raise" (an exception leaves mutate), "None" (return None) or  *)
(*          "State" (a new State is returned)                              *)
(*   state  the State returned                                             *)
(*   input  the argument `state` as it reads after the call: the list      *)
(*          state.txList is copied by `state.txList + []`, the Transaction *)
(*          objects in it are not, so an assignment to a field of          *)
(*          txList[actionArg] is an assignment to state.txList[actionArg]  *)
(*   shared the indices at which the returned txList holds the very        *)
(*          Transaction object that the argument holds                     *)
(***************************************************************************)
MutOut(kind, new, input, shared) ==
    [kind |-> kind, err |-> "", state |-> new, input |-> input, shared |-> shared]

\* return None; err names the reason as the error taxonomy does
NoneOut(err, s) ==
    [kind |-> "None", err |-> err, state |-> NoState, input |-> s, shared |-> {}]

Occupied(txList) == {i \in Idx : txList[i] # NoTx}

\* lines 242-249: the variables read by the transactions after index k
ReadSetAfter(r, txList, k) ==
    UNION {func_map(r)[txList[i].hash].vars_read :
             i \in {j \in Idx : /\ j > k
                                /\ txList[j] # NoTx
                                /\ txList[j].hash \in DOMAIN func_map(r)}}

\* mutant: every other analyzed function is a candidate
candidateFuncNoDependency(abi, r, txList, txHash, k) ==
    {h \in funcHashList(abi) : h # txHash /\ h \in DOMAIN func_map(r)}

\* lines 235-252: the candidate functions of a Replace at index k
candidateFunc(abi, r, txList, txHash, k) ==
    {h \in funcHashList(abi) :
        /\ h # txHash
        /\ h \in DOMAIN func_map(r)
        /\ \/ func_map(r)[h].call > 0
           \/ func_map(r)[h].vars_written \cap ReadSetAfter(r, txList, k) # {}}

\* mutant: an empty last slot does not redirect the action to the last index
checkedActionNoGapFill(txList, action) ==
    IF txList[action.actionArg] = NoTx
    THEN [actionId |-> 0, actionArg |-> action.actionArg]
    ELSE action

\* lines 223-227: the manual checks that override the decoded action
checkedAction(txList, action) ==
    IF txList[maxCallNum - 1] = NoTx
    THEN [actionId |-> 0, actionArg |-> maxCallNum - 1]
    ELSE IF txList[action.actionArg] = NoTx
    THEN [actionId |-> 0, actionArg |-> action.actionArg]
    ELSE action

\* lines 231-258
Replace(abi, r, s, k) ==
    LET txHash == s.txList[k].hash
        cands  == candidateFunc(abi, r, s.txList, txHash, k)
    IN  IF \/ Cardinality(funcHashList(abi)) <= 0
           \/ (Cardinality(funcHashList(abi)) = 1 /\ txHash \in funcHashList(abi))
        THEN {NoneOut("NoCandidate", s)}
        ELSE IF r = None /\ \E h \in funcHashList(abi) : h # txHash
        THEN {MutOut("raise", NoState, s, {})}
        ELSE IF cands = {}
        THEN {NoneOut("NoCandidate", s)}
        ELSE {MutOut("State",
                     State(s.staticAnalysis, [s.txList EXCEPT ![k] = tx]),
                     s,
                     Occupied(s.txList) \ {k}) :
                 tx \in UNION {generateTx(abi, h) : h \in cands}}

\* lines 259-263
ModifyArgs(abi, s, k) ==
    {LET tx == [s.txList[k] EXCEPT !.args = a]
         txList == [s.txList EXCEPT ![k] = tx]
     IN  MutOut("State", State(s.staticAnalysis, txList),
                [s EXCEPT !.txList = txList], Occupied(txList)) :
        a \in generateTxArgs(abi, s.txList[k].hash)}

\* lines 264-274: up to 100 random draws, the first one that differs from the
\* current sender ends the loop; 100 draws of the current sender keep it
ModifySender(accounts, s, k) ==
    {LET tx == [s.txList[k] EXCEPT !.sender = sender]
         txList == [s.txList EXCEPT ![k] = tx]
     IN  MutOut("State", State(s.staticAnalysis, txList),
                [s EXCEPT !.txList = txList], Occupied(txList)) :
        sender \in accounts}

\* lines 282-287 (as a mutant of ModifyValue: the payable check is missing)
ModifyValueNoCheck(abi, s, k) ==
    {LET tx == [s.txList[k] EXCEPT !.value = value]
         txList == [s.txList EXCEPT ![k] = tx]
     IN  MutOut("State", State(s.staticAnalysis, txList),
                [s EXCEPT !.txList = txList], Occupied(txList)) :
        value \in generateTxValue(abi, s.txList[k].hash)}

\* lines 277-287
ModifyValue(abi, s, k) ==
    IF ~payable(abi, s.txList[k].hash)
    THEN {NoneOut("NotPayable", s)}
    ELSE ModifyValueNoCheck(abi, s, k)

\* lines 201-290
mutate(abi, r, accounts, s, action) ==
    IF ~s.valid \/ abi = None
    THEN {MutOut("raise", NoState, s, {})}
    ELSE IF action.actionArg < 0 \/ action.actionArg >= maxCallNum
    THEN {NoneOut("InvalidAction", s)}
    ELSE LET a == checkedAction(s.txList, action)
             k == a.actionArg
         IN  IF a.actionId = 0 THEN Replace(abi, r, s, k)
             ELSE IF a.actionId \in {1, 2, 3} /\ s.txList[k] = NoTx
             THEN {NoneOut("NoTarget", s)}
             ELSE IF a.actionId = 1 THEN ModifyArgs(abi, s, k)
             ELSE IF a.actionId = 2 THEN ModifySender(accounts, s, k)
             ELSE IF a.actionId = 3 THEN ModifyValue(abi, s, k)
             ELSE {NoneOut("UnknownAction", s)}

\* the actions decodeAction can produce: an id 0..3 or an unknown one, and an
\* index that may be out of range on either side
ActionIds == 0 .. 4

Actions ==
    [actionId : ActionIds, actionArg : Idx] \cup [actionId : {0}, actionArg : {-1, maxCallNum}]

(***************************************************************************)
(* Traces. A trace is a list of executed instructions {pc, op}.            *)
(***************************************************************************)
Ta == <<[pc |-> 1, op |-> "JUMPI"]>>

Tb == <<[pc |-> 2, op |-> "JUMP"]>>

Tab == <<[pc |-> 1, op |-> "JUMPI"], [pc |-> 2, op |-> "JUMP"]>>

Tc == <<[pc |-> 3, op |-> "JUMPDEST"], [pc |-> 4, op |-> "PUSH1"]>>

\* the lists of at most MaxTraces traces that path_variaty can be given
TraceLists ==
    UNION {[1 .. n -> {<<>>, Ta, Tb, Tab, Tc}] : n \in 0 .. MaxTraces}

\* what the deployed contract does on a transaction (the backend is an EVM)
Exec(tx) ==
    IF tx.hash = "f1" THEN (IF tx.value = 0 THEN Ta ELSE Tab)
    ELSE IF tx.hash = "f2" THEN (IF tx.args = << <<"uint256", 1>> >> THEN Tb ELSE Ta)
    ELSE <<>>

\* the answers of evm.sendTx: the trace, or no usable response
sendTx(tx, down) == IF down THEN {Exec(tx), <<>>} ELSE {Exec(tx)}

\* lines 117-125: no contract, or no answer, is the empty trace
runOneTx(c, answer) == IF c = None THEN <<>> ELSE answer

RECURSIVE firstPassAborts(_, _, _, _)
\* mutant: a transaction without an answer ends the batch
firstPassAborts(i, c, txList, resp) ==
    IF i >= maxCallNum THEN <<>>
    ELSE IF txList[i] # NoTx /\ runOneTx(c, resp[i]) = <<>> THEN <<>>
    ELSE <<(IF txList[i] = NoTx THEN <<>> ELSE runOneTx(c, resp[i]))>>
             \o firstPassAborts(i + 1, c, txList, resp)

RECURSIVE firstPass(_, _, _, _)
\* lines 133-147: one trace per slot, the empty trace for an empty slot
firstPass(i, c, txList, resp) ==
    IF i >= maxCallNum THEN <<>>
    ELSE <<(IF txList[i] = NoTx THEN <<>> ELSE runOneTx(c, resp[i]))>>
             \o firstPass(i + 1, c, txList, resp)

RECURSIVE revertPass(_, _, _, _)
\* lines 153-158: the traces of the replay, the empty ones left out
revertPass(i, c, txList, resp) ==
    IF i >= maxCallNum THEN <<>>
    ELSE (IF txList[i] # NoTx /\ runOneTx(c, resp[i]) # <<>>
          THEN <<runOneTx(c, resp[i])>> ELSE <<>>)
             \o revertPass(i + 1, c, txList, resp)

RECURSIVE sumCalls(_, _, _)
\* lines 138-141: the sum of the static call features of the transactions
sumCalls(i, r, txList) ==
    IF i >= maxCallNum THEN 0
    ELSE (IF txList[i] # NoTx /\ txList[i].hash \in DOMAIN func_map(r)
          THEN func_map(r)[txList[i].hash].call ELSE 0)
             + sumCalls(i + 1, r, txList)

\* lines 127-159
runTxs(c, r, txList, resp, resp2) ==
    IF sumCalls(0, r, txList) > 0
    THEN firstPass(0, c, txList, resp) \o revertPass(0, c, txList, resp2)
    ELSE firstPass(0, c, txList, resp)

\* runTxs raises when the report or the cache entry it reads is missing
runTxsRaises(cm, fn, r, txList) ==
    \E i \in Idx : txList[i] # NoTx /\ (r = None \/ fn = None \/ ~cm[fn].cached)

(***************************************************************************)
(* TraceAnalyzer.path_variaty (trace.py). A reward is a fraction           *)
(* <<numerator, denominator>>.                                             *)
(***************************************************************************)
\* state["op"][:4] == "JUMP": the EVM mnemonics that begin with JUMP
branch_op(op) == op \in {"JUMP", "JUMPI", "JUMPDEST"}

\* trace.py lines 25-34: the pcs of the JUMP-class instructions of the traces
Jumps(trs) ==
    UNION {{trs[i][j].pc : j \in {n \in 1 .. Len(trs[i]) : branch_op(trs[i][n].op)}} :
             i \in DOMAIN trs}

\* mutant: the reward counts the common pcs, not the differing ones
path_variatyCommon(ptraces, ctraces) ==
    LET pJumps == Jumps(ptraces)
        cJumps == Jumps(ctraces)
        difJumps == pJumps \cup cJumps
        comJumpNum == Cardinality(pJumps) + Cardinality(cJumps) - Cardinality(difJumps)
    IN  IF Cardinality(difJumps) = 0 THEN <<0, 1>>
        ELSE <<comJumpNum, Cardinality(difJumps)>>

\* mutant: the reward is the signed difference of the two sets' sizes
path_variatySigned(ptraces, ctraces) ==
    LET pJumps == Jumps(ptraces)
        cJumps == Jumps(ctraces)
        difJumps == pJumps \cup cJumps
    IN  IF Cardinality(difJumps) = 0 THEN <<0, 1>>
        ELSE <<Cardinality(cJumps) - Cardinality(pJumps), Cardinality(difJumps)>>

\* trace.py lines 35-43
path_variaty(ptraces, ctraces) ==
    LET pJumps == Jumps(ptraces)
        cJumps == Jumps(ctraces)
        difJumps == pJumps \cup cJumps
        comJumpNum == Cardinality(pJumps) + Cardinality(cJumps) - Cardinality(difJumps)
    IN  IF Cardinality(difJumps) = 0 THEN <<0, 1>>
        ELSE <<Cardinality(pJumps) + Cardinality(cJumps) - 2 * comJumpNum,
               Cardinality(difJumps)>>

\* reward += bonus, on fractions
addReward(reward, bonus) == <<reward[1] + bonus * reward[2], reward[2]>>

(***************************************************************************)
(* TraceAnalyzer.run as fuzzer.py uses it (line 370): the reward, and for  *)
(* every slot the locations its trace visited and the signature of its     *)
(* path. The findings and the seed candidates are inputs of the step.      *)
(***************************************************************************)
pcsOf(trace) == {trace[j].pc : j \in 1 .. Len(trace)}

pathOf(trace) == [j \in 1 .. Len(trace) |-> trace[j].pc]

analyzerPcs(trs) == [i \in Idx |-> pcsOf(trs[i + 1])]

analyzerPaths(trs) == [i \in Idx |-> pathOf(trs[i + 1])]

(***************************************************************************)
(* The seed corpus: typeHandlers[hash].seeds maps a type to its list of    *)
(* values; has = FALSE is a key the dict does not hold.                    *)
(***************************************************************************)
SeedTypes == {"uint256", "address"}

AllHashes == {"f1", "f2", "f3", "f4", "f"}

NoList == [has |-> FALSE, list |-> <<>>]

NoSeeds == [h \in AllHashes |-> [t \in SeedTypes |-> NoList]]

NoAbi == [contract |-> None, seeds |-> NoSeeds]

\* ContractAbi(contract): a new ABI object
ContractAbi(c) == [contract |-> c, seeds |-> NoSeeds]

\* mutant: the list of a type is started again
addArgOverwrite(seeds, arg) ==
    [seeds EXCEPT ![arg[1]] = [has |-> TRUE, list |-> <<arg[2]>>]]

\* lines 190-193, for one argument (type, value)
addArg(seeds, arg) ==
    IF ~seeds[arg[1]].has
    THEN [seeds EXCEPT ![arg[1]] = [has |-> TRUE, list |-> <<arg[2]>>]]
    ELSE [seeds EXCEPT ![arg[1]].list = Append(@, arg[2])]

\* lines 196-197, for one seed candidate (type, value)
addMoreSeed(seeds, seed) ==
    IF seeds[seed[1]].has
    THEN [seeds EXCEPT ![seed[1]].list = Append(@, seed[2])]
    ELSE seeds

RECURSIVE addAll(_, _, _, _)
\* the two loops of lines 189-198 over a list of pairs
addAll(seeds, pairs, n, more) ==
    IF n > Len(pairs) THEN seeds
    ELSE addAll(IF more THEN addMoreSeed(seeds, pairs[n]) ELSE addArg(seeds, pairs[n]),
                pairs, n + 1, more)

\* mutant: the visited set is replaced by the locations of the slot
mergeVisitedReplace(visitedList, v, pathCoverage) ==
    IF pathCoverage THEN {v} ELSE v

\* lines 184-187
mergeVisited(visitedList, v, pathCoverage) ==
    IF pathCoverage THEN visitedList \cup {v} ELSE visitedList \cup v

\* lines 172-175
alreadyVisited(visitedList, v, pathCoverage) ==
    IF pathCoverage THEN v \in visitedList ELSE v \subseteq visitedList

RECURSIVE loadSeedFrom(_, _, _, _, _, _, _)
\* lines 169-198 from slot i on; acc is [visited, seeds, flag]
loadSeedFrom(i, txList, visited, more_seeds, visitedList, pathCoverage, acc) ==
    IF i >= maxCallNum THEN acc
    ELSE IF txList[i] = NoTx \/ alreadyVisited(visitedList, visited[i], pathCoverage)
    THEN loadSeedFrom(i + 1, txList, visited, more_seeds, visitedList, pathCoverage, acc)
    ELSE LET h == txList[i].hash
             s1 == addAll(acc.seeds[h], txList[i].args, 1, FALSE)
             s2 == addAll(s1, more_seeds[i], 1, TRUE)
         IN  loadSeedFrom(i + 1, txList, visited, more_seeds, visitedList, pathCoverage,
                 [visited |-> mergeVisited(visitedList, visited[i], pathCoverage),
                  seeds |-> [acc.seeds EXCEPT ![h] = s2],
                  flag |-> TRUE])

\* lines 161-199: the visited set, the seeds and the new-path flag it leaves
loadSeed(visitedList, seeds, txList, visited, more_seeds, pathCoverage) ==
    loadSeedFrom(0, txList, visited, more_seeds, visitedList, pathCoverage,
                 [visited |-> visitedList, seeds |-> seeds, flag |-> FALSE])

\* loadSeed raises when the cache entry or a type handler it reads is missing
loadSeedRaises(cm, fn, abi, txList) ==
    \/ fn = None
    \/ ~cm[fn].cached
    \/ \E i \in Idx : txList[i] # NoTx /\ txList[i].hash \notin funcHashList(abi.contract)

\* the seed candidates the analyzer can hand to loadSeed for one slot
MoreSeeds == {<<>>, << <<"uint256", 1>>, <<"address", 1>> >>}

(***************************************************************************)
(* Fuzzer.coverage (lines 418-430): a fraction, or an exception.           *)
(***************************************************************************)
NoEntry == [cached |-> FALSE, contract |-> None, report |-> None, visited |-> {}]

coverageRaises(o, cm, fn, c) ==
    /\ o.pathCoverage \/ jump_cnt(c) # 0
    /\ fn = None \/ ~cm[fn].cached

coverage(o, cm, fn, c) ==
    IF o.pathCoverage THEN <<Cardinality(cm[fn].visited), 1>>
    ELSE IF jump_cnt(c) = 0 THEN <<1, 1>>
    ELSE <<Cardinality(cm[fn].visited), jump_cnt(c)>>

\* p == q on fractions
sameCoverage(p, q) == p[1] * q[2] = q[1] * p[2]

(***************************************************************************)
(* The controller.                                                         *)
(***************************************************************************)
Opts(concolic, pathCoverage, exploit) ==
    [concolic |-> concolic, pathCoverage |-> pathCoverage, exploit |-> exploit]

\* What the collaborators of one run can do:
\*   accounts  the accounts of the backend (the keys of self.accounts)
\*   paths     the contract files the driving loop loads
\*   loads     the outcomes of a first load
\*   faults    whether a collaborator may raise during reset or step
\*   down      whether the backend may give no usable response to a transaction
\*   findings  the reports the vulnerability detector can return
\*   moreSeeds the seed candidates the analyzer can return for a slot
\*   history   whether the runs of stagnant steps are recorded
Env(accounts, paths, loads, faults, down, findings, moreSeeds, history) ==
    [accounts |-> accounts, paths |-> paths, loads |-> loads, faults |-> faults,
     down |-> down, findings |-> findings, moreSeeds |-> moreSeeds,
     history |-> history]

NoZero == <<0, 1>>

\* the findings the detector can report for one execution
Findings == {{}, {"Reentrancy"}}

LoadOutcomes == {"compile_raises", "no_address", "analysis_raises", "mythril_raises", "ok"}

Returned(op, kind, reward, done, timeout, found, branch) ==
    [op |-> op, kind |-> kind, err |-> "", reward |-> reward, done |-> done,
     timeout |-> timeout, found |-> found, branch |-> branch]

NoOut == NoneOut("", NoState)

NoCall == [op |-> "none", phase |-> "none"]

NoMut == [phase |-> "none", abi |-> None, report |-> None, state |-> NoState,
          action |-> [actionId |-> 0, actionArg |-> 0], out |-> NoOut]

\* lines 20-71
InitFuzzer(e, optsSet) ==
    /\ env = e
    /\ opts \in optsSet
    /\ contractMap = [p \in Paths |-> NoEntry]
    /\ filename = None
    /\ contract = None
    /\ contractAbi = NoAbi
    /\ contractAnalysisReport = None
    /\ mythrilConcolic = None
    /\ state = NoState
    /\ traces = <<>>
    /\ report = {}
    /\ counter = 0
    /\ concolicCnt = 0
    /\ concolicWait = initial_wait
    /\ ret = Returned("init", "ok", NoZero, 0, 0, {}, "none")
    /\ stagnant = [all |-> 0, exec |-> 0]

\* the driving loop on both contracts, with every outcome of a load and every
\* collaborator fault
Init ==
    /\ InitFuzzer(Env({defaultAccount}, Paths, LoadOutcomes, TRUE, FALSE, Findings,
                      {<<>>}, FALSE),
                  {Opts(FALSE, FALSE, FALSE), Opts(TRUE, FALSE, FALSE)})
    /\ mut = NoMut
    /\ call = NoCall

\* fuzzing one contract: in plain-coverage mode with a backend that may fail to
\* answer a transaction and in path-coverage mode, the analyzer handing seed
\* candidates, and with exploit detection and collaborator faults
InitSeed ==
    /\ \/ InitFuzzer(Env({defaultAccount}, {"A"}, {"ok"}, FALSE, TRUE, {{}},
                         MoreSeeds, FALSE),
                     {Opts(FALSE, FALSE, FALSE)})
       \/ InitFuzzer(Env({defaultAccount}, {"A"}, {"ok"}, FALSE, FALSE, {{}},
                         MoreSeeds, FALSE),
                     {Opts(FALSE, TRUE, FALSE)})
       \/ InitFuzzer(Env({defaultAccount}, {"A"}, {"ok"}, TRUE, FALSE, {{}},
                         {<<>>}, FALSE),
                     {Opts(FALSE, FALSE, TRUE)})
    /\ mut = NoMut
    /\ call = NoCall

\* fuzzing one contract with the concolic escalation enabled
InitEsc ==
    /\ InitFuzzer(Env({defaultAccount}, {"A"}, {"ok"}, TRUE, FALSE, {{}}, {<<>>}, TRUE),
                  {Opts(TRUE, FALSE, FALSE), Opts(TRUE, TRUE, FALSE)})
    /\ mut = NoMut
    /\ call = NoCall

\* one call of mutate on any State over the functions of a loaded contract
InitMutate ==
    /\ InitFuzzer(Env(Accounts, Paths, {"ok"}, FALSE, FALSE, {{}}, {<<>>}, FALSE),
                  {Opts(FALSE, FALSE, FALSE)})
    /\ \E c \in Paths, action \in Actions :
         \E txList \in AllTxLists(c) :
            mut = [phase |-> "call", abi |-> c, report |-> c,
                   state |-> State(c, txList), action |-> action, out |-> NoOut]
    /\ call = NoCall

\* the keys of the compiled artifact the backend returns for a contract
artifactKeys(c) ==
    IF c = "A" THEN {"opcodes", "runtimeBytecode", "runtime_bytecode"}
    ELSE {"opcodes", "runtimeBytecode"}

\* mutant: the cache entry is written as soon as the contract is compiled
commitsCacheEarly(outcome) == outcome # "compile_raises"

\* lines 104-110 are reached: the outcomes of a first load that set the cache
commitsCache(outcome) == outcome \in {"mythril_raises", "ok"}

\* lines 76-115. outcome is what the collaborators do on a first load:
\* compile raises, deploy returns no address, the static analysis raises,
\* the concolic executor cannot be built, or all succeed

loadContract(fn, outcome) ==
    /\ state' = NoState
    /\ traces' = <<>>
    /\ report' = {}
    /\ counter' = 0
    /\ filename' = fn
    /\ UNCHANGED <<env, opts, concolicCnt, concolicWait, stagnant>>
    /\ IF contractMap[fn].cached
       THEN /\ contract' = contractMap[fn].contract
            /\ contractAbi' = ContractAbi(contractMap[fn].contract)
            /\ contractAnalysisReport' = contractMap[fn].report
            /\ UNCHANGED contractMap
            /\ IF "runtime_bytecode" \in artifactKeys(contractMap[fn].contract)
               THEN /\ mythrilConcolic' = contractMap[fn].contract
                    /\ ret' = Returned("load", "True", NoZero, 0, 0, {}, "none")
               ELSE /\ UNCHANGED mythrilConcolic
                    /\ ret' = Returned("load", "raised", NoZero, 0, 0, {}, "none")
       ELSE /\ contract' = IF outcome = "compile_raises" THEN contract ELSE fn
            /\ contractAbi' = IF outcome \in {"compile_raises", "no_address"}
                              THEN contractAbi ELSE ContractAbi(fn)
            /\ contractAnalysisReport' =
                   IF outcome \in {"mythril_raises", "ok"} THEN fn
                   ELSE contractAnalysisReport
            /\ contractMap' =
                   IF commitsCache(outcome)
                   THEN [contractMap EXCEPT ![fn] =
                            [cached |-> TRUE, contract |-> fn, report |-> fn,
                             visited |-> {}]]
                   ELSE contractMap
            /\ mythrilConcolic' =
                   IF outcome = "ok" /\ "runtimeBytecode" \in artifactKeys(fn)
                   THEN fn ELSE mythrilConcolic
            /\ ret' = [Returned("load",
                                IF outcome = "ok" /\ "runtimeBytecode" \in artifactKeys(fn)
                                THEN "True" ELSE "False",
                                NoZero, 0, 0, {}, "none")
                         EXCEPT !.err = IF outcome = "ok" THEN "" ELSE outcome]

LoadContract ==
    /\ \E fn \in env.paths, outcome \in env.loads :
          /\ contractMap[fn].cached => outcome = "ok"
          /\ loadContract(fn, outcome)
    /\ UNCHANGED <<mut, call>>

\* mutant: the traces and the findings of the last episode are kept
resetKeepsTraces(deployed) ==
    /\ counter' = 0
    /\ IF contract = None
       THEN /\ ret' = Returned("reset", "None", NoZero, 0, 0, {}, "none")
            /\ UNCHANGED <<state, traces, report>>
       ELSE IF ~deployed
       THEN /\ ret' = Returned("reset", "raised", NoZero, 0, 0, {}, "none")
            /\ UNCHANGED <<state, traces, report>>
       ELSE /\ state' = State(contractAnalysisReport, EmptyTxList)
            /\ UNCHANGED <<traces, report>>
            /\ ret' = Returned("reset", "ok", NoZero, 0, 0, {}, "none")
    /\ UNCHANGED <<env, opts, contractMap, filename, contract, contractAbi,
                   contractAnalysisReport, mythrilConcolic, concolicCnt,
                   concolicWait, stagnant>>

\* lines 292-307; deployed is whether evm.deploy answers or raises
reset(deployed) ==
    /\ counter' = 0
    /\ IF contract = None
       THEN /\ ret' = Returned("reset", "None", NoZero, 0, 0, {}, "none")
            /\ UNCHANGED <<state, traces, report>>
       ELSE IF ~deployed
       THEN /\ ret' = Returned("reset", "raised", NoZero, 0, 0, {}, "none")
            /\ UNCHANGED <<state, traces, report>>
       ELSE /\ state' = State(contractAnalysisReport, EmptyTxList)
            /\ traces' = <<>>
            /\ report' = {}
            /\ ret' = Returned("reset", "ok", NoZero, 0, 0, {}, "none")
    /\ UNCHANGED <<env, opts, contractMap, filename, contract, contractAbi,
                   contractAnalysisReport, mythrilConcolic, concolicCnt,
                   concolicWait, stagnant>>

Reset ==
    /\ \E deployed \in BOOLEAN :
          /\ (contract = None \/ ~env.faults) => deployed
          /\ reset(deployed)
    /\ UNCHANGED <<mut, call>>

(***************************************************************************)
(* Fuzzer.step (lines 337-416).                                            *)
(***************************************************************************)
Min(a, b) == IF a <= b THEN a ELSE b

Max(a, b) == IF a >= b THEN a ELSE b

\* the answers of the backend to the transactions of a list
Responses(txList, down) ==
    {resp \in [Idx -> {<<>>, Ta, Tb, Tab}] :
        \A i \in Idx :
            resp[i] \in (IF txList[i] = NoTx THEN {<<>>} ELSE sendTx(txList[i], down))}

\* the transaction lists the symbolic executor of contract c can return;
\* the empty list is "nothing found"
ConcolicResults(c) ==
    IF c = "A"
    THEN {[i \in Idx |-> IF i = maxCallNum - 1
                         THEN Transaction("f1", defaultAccount, 1, <<>>)
                         ELSE IF i = 0
                         THEN Transaction("f2", defaultAccount, 0, << <<"uint256", v>> >>)
                         ELSE NoTx] : v \in ArgVals}
    ELSE {}

\* mutant: the attempt is not counted
nextCounterSkipped(c) == c

\* line 339
nextCounter(c) == c + 1

\* lines 346-347
timeoutFlag(c) == IF c >= max_attempt THEN 1 ELSE 0

\* mutant: findings do not end the episode
doneFlagNever(rep) == 0

\* lines 396-397
doneFlag(rep) == IF Cardinality(rep) > 0 THEN 1 ELSE 0

\* mutant: the threshold has to be exceeded
escalatesLate == opts.concolic /\ concolicCnt > concolicWait

\* line 350
escalates == opts.concolic /\ concolicCnt >= concolicWait

\* mutant: the shrunk wait has no floor
shrinkWaitNoFloor(w) == w \div (concolic_reward * concolic_penalty)

\* line 359
shrinkWait(w) == Max(1, w \div (concolic_reward * concolic_penalty))

\* line 403
growWait(w) == w * concolic_penalty

\* mutant: a coverage gain does not reset the count
bookkeepingCountsAll(same, cnt, wait) ==
    [cnt |-> cnt + 1, wait |-> IF same THEN wait ELSE growWait(wait)]

\* lines 399-403: the escalation counters after a completed step
bookkeeping(same, cnt, wait) ==
    IF same THEN [cnt |-> cnt + 1, wait |-> wait]
    ELSE [cnt |-> 0, wait |-> growWait(wait)]

\* history: the runs of consecutive stagnant steps of the mutation engine,
\* all of them (all) and those that executed their candidate (exec)
stagnantAfter(branch, kind, same) ==
    IF ~env.history THEN stagnant ELSE
    [all  |-> IF branch = "mutate" /\ kind \in {"ok", "noop"} /\ same
              THEN Min(stagnant.all + 1, MaxCnt + 1) ELSE 0,
     exec |-> IF branch = "mutate" /\ kind = "ok" /\ same
              THEN Min(stagnant.exec + 1, MaxCnt + 1) ELSE 0]

seedsBounded(abi) ==
    \A h \in AllHashes, t \in SeedTypes : Len(abi.seeds[h][t].list) <= MaxSeedLen

stepFrame ==
    /\ counter' = nextCounter(counter)
    /\ UNCHANGED <<env, opts, filename, contract, contractAnalysisReport,
                   mythrilConcolic>>

\* lines 413-416: the except clause; the arguments are what the step had
\* assigned when the exception was raised
stepFailed(cur, trs, cm, abi, cnt, wait, branch, found, p) ==
    /\ stepFrame
    /\ state' = cur
    /\ traces' = trs
    /\ contractMap' = cm
    /\ contractAbi' = abi
    /\ concolicCnt' = cnt
    /\ concolicWait' = wait
    /\ UNCHANGED report
    /\ ret' = Returned("step", "failed", NoZero, 0, 1, found, branch)
    /\ stagnant' = stagnantAfter(branch, "failed",
                                 sameCoverage(p, coverage(opts, cm, filename, contract)))

\* lines 364-366: no candidate state
stepNoop(cur, cnt, branch, err, p) ==
    /\ stepFrame
    /\ state' = cur
    /\ concolicCnt' = cnt
    /\ UNCHANGED <<traces, contractMap, contractAbi, concolicWait, report>>
    /\ ret' = [Returned("step", "noop", NoZero, 0, timeoutFlag(counter'), {}, branch)
                 EXCEPT !.err = err]
    /\ stagnant' = stagnantAfter(branch, "noop", TRUE)

\* lines 367-412: execute nextState, score it, update seeds and coverage and
\* commit; cur is self.state as the mutation left it
stepExecute(nextState, cur, cnt, wait, branch, p) ==
    \/ \* runTxs or the trace analyzer raises
       /\ env.faults
       /\ stepFailed(cur, traces, contractMap, contractAbi, cnt, wait, branch, {}, p)
    \/ /\ runTxsRaises(contractMap, filename, contractAnalysisReport, nextState.txList)
       /\ stepFailed(cur, traces, contractMap, contractAbi, cnt, wait, branch, {}, p)
    \/ /\ ~runTxsRaises(contractMap, filename, contractAnalysisReport, nextState.txList)
       /\ \E resp \in Responses(nextState.txList, env.down), found \in env.findings,
             more \in env.moreSeeds :
            LET trs == runTxs(contract, contractAnalysisReport, nextState.txList, resp, resp)
                pv  == path_variaty(traces, trs)
                visited == IF opts.pathCoverage THEN analyzerPaths(trs)
                           ELSE analyzerPcs(trs)
            IN  IF loadSeedRaises(contractMap, filename, contractAbi, nextState.txList)
                THEN stepFailed(cur, trs, contractMap, contractAbi, cnt, wait,
                                branch, found, p)
                ELSE
                LET ls == loadSeed(contractMap[filename].visited, contractAbi.seeds,
                                   nextState.txList, visited,
                                   [i \in Idx |-> more], opts.pathCoverage)
                    cm  == [contractMap EXCEPT ![filename].visited = ls.visited]
                    abi == [contractAbi EXCEPT !.seeds = ls.seeds]
                    r1  == addReward(pv, valid_mutation_reward)
                    r2  == IF ls.flag THEN addReward(r1, path_discovery_reward) ELSE r1
                    same == sameCoverage(p, coverage(opts, cm, filename, contract))
                    bk  == bookkeeping(same, cnt, wait)
                IN  /\ seedsBounded(abi)
                    /\ \/ \* evm.getAccounts raises (line 380)
                          /\ opts.exploit /\ env.faults
                          /\ stepFailed(cur, trs, cm, abi, cnt, wait, branch, found, p)
                       \/ \E gain \in (IF opts.exploit THEN BOOLEAN ELSE {FALSE}) :
                            LET rep == IF gain THEN found \cup {"BalanceIncrement"}
                                       ELSE found
                                r3  == IF gain THEN addReward(r2, exploit_reward) ELSE r2
                            IN  /\ bk.cnt <= MaxCnt
                                /\ stepFrame
                                /\ state' = nextState
                                /\ traces' = trs
                                /\ contractMap' = cm
                                /\ contractAbi' = abi
                                /\ concolicCnt' = bk.cnt
                                /\ concolicWait' = bk.wait
                                /\ report' = report \cup rep
                                /\ ret' = Returned("step", "ok", r3, doneFlag(rep),
                                                   timeoutFlag(counter'), rep, branch)
                                /\ stagnant' = stagnantAfter(branch, "ok", same)

Step ==
    /\ counter < MaxCounter
    /\ UNCHANGED <<mut, call>>
    /\ IF coverageRaises(opts, contractMap, filename, contract)
       THEN \* line 342 is outside the try block
            /\ stepFrame
            /\ ret' = Returned("step", "raised", NoZero, 0, 0, {}, "none")
            /\ stagnant' = stagnantAfter("none", "raised", TRUE)
            /\ UNCHANGED <<state, traces, contractMap, contractAbi, concolicCnt,
                           concolicWait, report>>
       ELSE
       LET p == coverage(opts, contractMap, filename, contract)
       IN  IF escalates
           THEN \/ \* self.mythrilConcolic.run raises
                   /\ env.faults \/ mythrilConcolic = None \/ ~state.valid
                   /\ stepFailed(state, traces, contractMap, contractAbi, concolicCnt,
                                 concolicWait, "concolic", {}, p)
                \/ /\ mythrilConcolic # None
                   /\ state.valid
                   /\ \/ stepNoop(state, 0, "concolic", "", p)
                      \/ \E result \in ConcolicResults(mythrilConcolic) :
                            stepExecute(State(state.staticAnalysis, result), state, 0,
                                        shrinkWait(concolicWait), "concolic", p)
           ELSE \/ \* decodeAction raises
                   /\ env.faults
                   /\ stepFailed(state, traces, contractMap, contractAbi, concolicCnt,
                                 concolicWait, "mutate", {}, p)
                \/ \E action \in Actions :
                     \E m \in mutate(contractAbi.contract, contractAnalysisReport,
                                     env.accounts, state, action) :
                        \/ /\ m.kind = "raise"
                           /\ stepFailed(m.input, traces, contractMap, contractAbi,
                                         concolicCnt, concolicWait, "mutate", {}, p)
                        \/ /\ m.kind = "None"
                           /\ stepNoop(m.input, concolicCnt, "mutate", m.err, p)
                        \/ /\ m.kind = "State"
                           /\ stepExecute(m.state, m.input, concolicCnt, concolicWait,
                                          "mutate", p)

Next == LoadContract \/ Reset \/ Step

Spec == Init /\ [][Next]_vars

SpecSeed == InitSeed /\ [][Next]_vars

SpecEsc == InitEsc /\ [][Next]_vars

\* nextState = self.mutate(state, action)
ApplyMutate ==
    /\ mut.phase = "call"
    /\ \E out \in mutate(mut.abi, mut.report, env.accounts, mut.state, mut.action) :
          mut' = [mut EXCEPT !.phase = "return", !.out = out]
    /\ UNCHANGED <<fuzzerVars, call>>

SpecMutate == InitMutate /\ [][ApplyMutate]_vars

\* one call of path_variaty on any two lists of traces, and the call with the
\* two lists swapped
InitVariety ==
    /\ InitFuzzer(Env(Accounts, Paths, {"ok"}, FALSE, FALSE, {{}}, {<<>>}, FALSE),
                  {Opts(FALSE, FALSE, FALSE)})
    /\ mut = NoMut
    /\ \E pt \in TraceLists, ct \in TraceLists :
          call = [op |-> "path_variaty", phase |-> "call", ptraces |-> pt,
                  ctraces |-> ct, out |-> NoZero, swapped |-> NoZero]

\* reward = self.path_variaty(ptraces, ctraces)
ApplyVariety ==
    /\ call.op = "path_variaty" /\ call.phase = "call"
    /\ call' = [call EXCEPT !.phase = "return",
                            !.out = path_variaty(call.ptraces, call.ctraces),
                            !.swapped = path_variaty(call.ctraces, call.ptraces)]
    /\ UNCHANGED <<fuzzerVars, mut>>

SpecVariety == InitVariety /\ [][ApplyVariety]_vars

\* one call of runTxs on any transaction list of a loaded contract, with a
\* backend that may fail to answer any of the transactions
InitRunTxs ==
    /\ InitFuzzer(Env(Accounts, Paths, {"ok"}, FALSE, TRUE, {{}}, {<<>>}, FALSE),
                  {Opts(FALSE, FALSE, FALSE)})
    /\ mut = NoMut
    /\ \E c \in Paths :
         \E txList \in AllTxLists(c) :
            \E resp \in Responses(txList, env.down), resp2 \in Responses(txList, env.down) :
               call = [op |-> "runTxs", phase |-> "call", contract |-> c,
                       txList |-> txList, resp |-> resp, resp2 |-> resp2,
                       out |-> <<>>]

\* traces = self.runTxs(nextState.txList)
ApplyRunTxs ==
    /\ call.op = "runTxs" /\ call.phase = "call"
    /\ call' = [call EXCEPT !.phase = "return",
                            !.out = runTxs(call.contract, call.contract,
                                           call.txList, call.resp, call.resp2)]
    /\ UNCHANGED <<fuzzerVars, mut>>

SpecRunTxs == InitRunTxs /\ [][ApplyRunTxs]_vars

(***************************************************************************)
(* Properties of mutate (SpecMutate).                                      *)
(***************************************************************************)
lastIndex == maxCallNum - 1

MutateReturned == mut.phase = "return"

\* C1: mutate never modifies its input: when it returns a new State, the
\* argument's txList and every Transaction in it read as before the call
MutateNeverModifiesInput ==
    (MutateReturned /\ mut.out.kind = "State") => mut.out.input = mut.state

\* the action that reaches the modify step is a Replace at index k: the index is
\* in range and either the last slot is empty and k is the last index, or the
\* last slot is occupied, k is the decoded index and the decoded action is
\* Replace or slot k is empty
ResolvesToReplaceAt(txList, action, k) ==
    /\ action.actionArg \in Idx
    /\ IF txList[lastIndex] = NoTx THEN k = lastIndex
       ELSE k = action.actionArg /\ (action.actionId = 0 \/ txList[k] = NoTx)

\* function h performs an external call, or writes a variable that a
\* transaction after index k reads
Interesting(r, txList, h, k) ==
    /\ h \in DOMAIN func_map(r)
    /\ \/ func_map(r)[h].call > 0
       \/ \E j \in Idx :
            /\ j > k
            /\ txList[j] # NoTx
            /\ txList[j].hash \in DOMAIN func_map(r)
            /\ func_map(r)[h].vars_written
                  \cap func_map(r)[txList[j].hash].vars_read # {}

\* C2: a Replace at index k fails with no state, or places at k a transaction
\* of another function, one that performs an external call or writes a variable
\* read by a transaction at an index > k
ReplaceIsInteresting ==
    MutateReturned =>
        \A k \in Idx :
            ResolvesToReplaceAt(mut.state.txList, mut.action, k) =>
                \/ mut.out.kind = "None" /\ mut.out.err = "NoCandidate"
                \/ /\ mut.out.kind = "State"
                   /\ mut.out.state.txList[k] # NoTx
                   /\ mut.out.state.txList[k].hash # mut.state.txList[k].hash
                   /\ Interesting(mut.report, mut.state.txList,
                                  mut.out.state.txList[k].hash, k)

\* a Replace at index 0 placed a function that performs no external call
ReplaceByDependencyReached ==
    /\ MutateReturned
    /\ ResolvesToReplaceAt(mut.state.txList, mut.action, 0)
    /\ mut.out.kind = "State"
    /\ func_map(mut.report)[mut.out.state.txList[0].hash].call = 0

\* a ModifyValue that no override redirects, aimed at a non-payable function
ModifyValueOfNonPayable ==
    /\ mut.action.actionId = 3
    /\ mut.action.actionArg \in Idx
    /\ mut.state.txList[lastIndex] # NoTx
    /\ mut.state.txList[mut.action.actionArg] # NoTx
    /\ ~payable(mut.abi, mut.state.txList[mut.action.actionArg].hash)

\* C8: ModifyValue on the slot of a non-payable function returns no state and
\* leaves txList and every transaction in it as before the call
ModifyValueNotPayable ==
    (MutateReturned /\ ModifyValueOfNonPayable) =>
        /\ mut.out.kind = "None"
        /\ mut.out.err = "NotPayable"
        /\ mut.out.input = mut.state

ModifyValueNotPayableReached == MutateReturned /\ ModifyValueOfNonPayable

(***************************************************************************)
(* Properties of the controller.                                           *)
(***************************************************************************)
\* this transition is the first step after a successful reset
FirstStep == ret.op = "reset" /\ ret.kind = "ok" /\ ret'.op = "step"

OnlyLastSlot(txList) ==
    txList[lastIndex] # NoTx /\ \A i \in Idx \ {lastIndex} : txList[i] = NoTx

\* C3 as claimed: the first step after reset, with an in-range action, places
\* a new transaction at the last index and leaves the other slots empty
FirstStepFillsLastSlot ==
    [][(/\ FirstStep
        /\ ret'.branch = "mutate"
        /\ ret'.kind \in {"ok", "noop"}
        /\ ret'.err # "InvalidAction")
          => OnlyLastSlot(state'.txList)]_vars

\* C3 as amended: the first step after reset that goes through the mutation
\* engine writes no slot but the last one; when it executes, the last slot
\* holds a function that performs an external call; otherwise the State is as
\* reset left it, and a NoCandidate no-op means no analyzed function performs
\* an external call
FirstStepTargetsLastSlot ==
    [][(FirstStep /\ ret'.branch = "mutate") =>
          /\ \A i \in Idx \ {lastIndex} : state'.txList[i] = NoTx
          /\ ret'.kind = "ok" =>
                /\ state'.txList[lastIndex] # NoTx
                /\ state'.txList[lastIndex].hash \in DOMAIN func_map(state'.staticAnalysis)
                /\ func_map(state'.staticAnalysis)[state'.txList[lastIndex].hash].call > 0
          /\ ret'.kind # "ok" => state' = state
          /\ ret'.kind = "noop" =>
                /\ ret'.err \in {"InvalidAction", "NoCandidate"}
                /\ ret'.err = "NoCandidate" =>
                      \A h \in funcHashList(contractAbi.contract) \cap
                               DOMAIN func_map(contractAnalysisReport) :
                          func_map(contractAnalysisReport)[h].call = 0]_vars

\* the first step of an episode executed and only the last slot is occupied
FirstStepReached ==
    /\ ret.op = "step" /\ ret.kind = "ok" /\ ret.branch = "mutate"
    /\ counter = 1
    /\ OnlyLastSlot(state.txList)

\* C4 as claimed: done = 1 whenever the step produced a finding and whenever
\* the attempt counter has reached max_attempt, done = 0 otherwise
DoneOnFindingOrCap ==
    (ret.op = "step" /\ ret.kind # "raised") =>
        (ret.done = 1 <=> (ret.found # {} \/ counter >= max_attempt))

\* C4 as amended: done = 1 exactly when the step ran to completion and
\* produced a finding; reaching max_attempt sets the timeout flag, not done
DoneOnFindingOnly ==
    (ret.op = "step" /\ ret.kind # "raised") =>
        /\ ret.done = 1 <=> (ret.kind = "ok" /\ ret.found # {})
        /\ counter >= max_attempt => ret.timeout = 1
        /\ ret.kind \in {"ok", "noop"} => (ret.timeout = 1 <=> counter >= max_attempt)

\* a completed step at the attempt cap without findings: timeout, not done
CapWithoutFindingReached ==
    /\ ret.op = "step" /\ ret.kind = "ok"
    /\ counter >= max_attempt
    /\ ret.found = {}
    /\ ret.done = 0 /\ ret.timeout = 1

\* C5: step never propagates a failure to its caller
StepNeverRaises == ~(ret.op = "step" /\ ret.kind = "raised")

\* C6 as claimed: after concolicWait consecutive stagnant steps, no-op steps
\* included, the next step takes the escalation branch
EscalatesAfterStagnantSteps ==
    [][(/\ opts.concolic
        /\ ret.op = "step"
        /\ stagnant.all >= concolicWait
        /\ ret'.op = "step")
          => ret'.branch = "concolic"]_vars

\* C6 as amended: after concolicWait consecutive steps that each executed a
\* mutated state and left coverage() unchanged, the next step takes the
\* escalation branch instead of the mutation engine
EscalatesAfterExecutedStagnantSteps ==
    [][(/\ opts.concolic
        /\ ret.op = "step"
        /\ stagnant.exec >= concolicWait
        /\ ret'.op = "step")
          => ret'.branch = "concolic"]_vars

\* initial_wait executed stagnant steps of an episode, then the escalation
EscalationReached ==
    /\ opts.concolic
    /\ ret.op = "step" /\ ret.branch = "concolic" /\ ret.kind \in {"ok", "noop"}
    /\ concolicWait = initial_wait
    /\ counter = initial_wait + 1

\* C7: a step whose mutation yields no candidate state leaves the State, the
\* traces, the visited sets and the seed corpus unchanged, returns reward 0 and
\* done 0, and counts as exactly one attempt
NoCandidateStepIsNoop ==
    [][(ret'.op = "step" /\ ret'.kind = "noop" /\ ret'.branch = "mutate") =>
          /\ state' = state
          /\ traces' = traces
          /\ contractMap' = contractMap
          /\ contractAbi' = contractAbi
          /\ ret'.reward[1] = 0
          /\ ret'.done = 0
          /\ counter' = counter + 1]_vars

\* a ModifyValue on a non-payable function was a no-op step
NoopStepReached ==
    ret.op = "step" /\ ret.kind = "noop" /\ ret.err = "NotPayable" /\ counter = MaxCounter

\* p <= q on fractions
coverageLeq(p, q) == p[1] * q[2] <= q[1] * p[2]

\* C9: the visited set of a cached contract only grows, and coverage() after a
\* step is not smaller than before it
CoverageNeverDecreases ==
    [][/\ \A p \in Paths :
            contractMap[p].cached =>
                /\ contractMap'[p].cached
                /\ contractMap[p].visited \subseteq contractMap'[p].visited
       /\ (/\ ret'.op = "step"
           /\ ~coverageRaises(opts, contractMap, filename, contract)
           /\ ~coverageRaises(opts', contractMap', filename', contract'))
             => coverageLeq(coverage(opts, contractMap, filename, contract),
                            coverage(opts', contractMap', filename', contract'))]_vars

\* coverage grew twice
CoverageGrewReached ==
    /\ ret.op = "step"
    /\ Cardinality(contractMap["A"].visited) >= 2

IsPrefix(a, b) == Len(a) <= Len(b) /\ SubSeq(b, 1, Len(a)) = a

\* C10: across a step (the caller of loadSeed) every seed list that exists
\* still exists, is at least as long and begins with the values it held
SeedListsOnlyGrow ==
    [][ret'.op = "step" =>
          \A h \in AllHashes, t \in SeedTypes :
              contractAbi.seeds[h][t].has =>
                  /\ contractAbi'.seeds[h][t].has
                  /\ Len(contractAbi'.seeds[h][t].list)
                        >= Len(contractAbi.seeds[h][t].list)
                  /\ IsPrefix(contractAbi.seeds[h][t].list,
                              contractAbi'.seeds[h][t].list)]_vars

\* a seed list grew beyond the value that created it
SeedListGrewReached ==
    /\ ret.op = "step"
    /\ \E h \in AllHashes, t \in SeedTypes : Len(contractAbi.seeds[h][t].list) >= 2

(***************************************************************************)
(* Properties of path_variaty (SpecVariety) and of runTxs (SpecRunTxs).    *)
(***************************************************************************)
\* path_variaty returned for two lists of traces whose JUMP-pc sets are both
\* non-empty and share no element
VarietyOfDisjoint ==
    /\ call.op = "path_variaty" /\ call.phase = "return"
    /\ Jumps(call.ptraces) # {}
    /\ Jumps(call.ctraces) # {}
    /\ Jumps(call.ptraces) \cap Jumps(call.ctraces) = {}

\* C11 as claimed: on disjoint non-empty JUMP-pc sets
\* path_variaty(A, B) == -path_variaty(B, A)
VarietyAntisymmetric ==
    VarietyOfDisjoint =>
        call.out[1] * call.swapped[2] = -(call.swapped[1] * call.out[2])

\* C11 as amended: on disjoint non-empty JUMP-pc sets path_variaty is
\* symmetric and equal to 1 in both orders
VarietySymmetric ==
    VarietyOfDisjoint =>
        /\ call.out[1] * call.swapped[2] = call.swapped[1] * call.out[2]
        /\ call.out[1] = call.out[2]
        /\ call.swapped[1] = call.swapped[2]

\* disjoint JUMP-pc sets of different sizes
VarietyOfDisjointReached ==
    /\ VarietyOfDisjoint
    /\ Cardinality(Jumps(call.ptraces)) # Cardinality(Jumps(call.ctraces))

\* C15: in runTxs a transaction without a usable response has the empty trace
\* and the batch continues: position i of the result is the trace of
\* txList[i], the empty trace for an empty slot
BatchSurvivesMissingAnswer ==
    (call.op = "runTxs" /\ call.phase = "return") =>
        /\ Len(call.out) >= maxCallNum
        /\ \A i \in Idx :
              call.out[i + 1] = IF call.txList[i] = NoTx THEN <<>>
                                ELSE call.resp[i]

\* the backend did not answer one transaction and a later one has its trace
MissingAnswerReached ==
    /\ call.op = "runTxs" /\ call.phase = "return"
    /\ \E i \in Idx, j \in Idx :
          /\ i < j
          /\ call.txList[i] # NoTx
          /\ Exec(call.txList[i]) # <<>>
          /\ call.resp[i] = <<>>
          /\ call.out[i + 1] = <<>>
          /\ call.out[j + 1] = Exec(call.txList[j])
          /\ call.out[j + 1] # <<>>

(***************************************************************************)
(* Properties of the reward and of the visited set (SpecSeed).             *)
(***************************************************************************)
\* this transition is a completed step after a completed step, and its
\* execution has the JUMP-pc set and the per-slot visited locations and path
\* signatures of the execution before; no exploit detection, no finding
SameExecutionAgain ==
    /\ ret.op = "step" /\ ret.kind = "ok"
    /\ ret'.op = "step" /\ ret'.kind = "ok"
    /\ ~opts.exploit
    /\ ret'.found = {}
    /\ Jumps(traces') = Jumps(traces)
    /\ analyzerPcs(traces') = analyzerPcs(traces)
    /\ analyzerPaths(traces') = analyzerPaths(traces)

\* C12: a step whose execution has the JUMP-pc set and the per-transaction
\* visited locations of the preceding successful step returns exactly the
\* valid-mutation bonus: path variety 0 and no path-discovery bonus
SameExecutionEarnsNoBonus ==
    [][SameExecutionAgain =>
          ret'.reward[1] = valid_mutation_reward * ret'.reward[2]]_vars

\* C17: after loadSeed returned, the accumulated visited set holds the visited
\* locations (plain coverage) or the path signature (path coverage) of every
\* non-empty slot of the transaction list
LoadSeedRecordsEverySlot ==
    (ret.op = "step" /\ ret.kind = "ok") =>
        \A i \in Idx :
            state.txList[i] # NoTx =>
                IF opts.pathCoverage
                THEN analyzerPaths(traces)[i] \in contractMap[filename].visited
                ELSE analyzerPcs(traces)[i] \subseteq contractMap[filename].visited

(***************************************************************************)
(* Properties of loadContract and reset (Spec).                            *)
(***************************************************************************)
\* C13: a loadContract that fails because compilation raises, deployment
\* returns no address or static analysis raises returns false and leaves the
\* contract cache exactly as it was
FailedLoadKeepsCache ==
    [][(/\ ret'.op = "load"
        /\ ret'.err \in {"compile_raises", "no_address", "analysis_raises"})
          => ret'.kind = "False" /\ contractMap' = contractMap]_vars

\* a load failed in static analysis while another contract is in the cache
FailedLoadReached ==
    /\ ret.op = "load" /\ ret.kind = "False" /\ ret.err = "analysis_raises"
    /\ ~contractMap[filename].cached
    /\ \E p \in Paths : contractMap[p].cached /\ contractMap[p].visited # {}

\* C14: loadContract on a path that was just loaded successfully returns true,
\* reuses the cached contract and report and keeps the visited set
ReloadReusesCache ==
    [][(/\ ret.op = "load" /\ ret.kind = "True"
        /\ ret'.op = "load"
        /\ filename' = filename)
          => /\ ret'.kind = "True"
             /\ contract' = contract
             /\ contractAnalysisReport' = contractAnalysisReport
             /\ contractMap'[filename].visited = contractMap[filename].visited]_vars

\* what reset leaves: maxCallNum empty slots with the analysis report of the
\* loaded contract, attempt counter 0, no traces and no findings
FreshEpisode ==
    /\ state = State(contractAnalysisReport, EmptyTxList)
    /\ counter = 0
    /\ traces = <<>>
    /\ report = {}

\* C16: every reset that succeeds leaves the fresh episode of the loaded
\* contract, and a reset right after a reset changes nothing
ResetIsIdempotent ==
    [][(ret'.op = "reset" /\ ret'.kind = "ok") =>
          /\ FreshEpisode'
          /\ (ret.op = "reset" /\ ret.kind = "ok") =>
                /\ state' = state
                /\ counter' = counter
                /\ traces' = traces
                /\ report' = report
                /\ ret' = ret]_vars

\* the state after a reset that followed executed steps; one more reset
\* leaves this state as it is
ResetAgainReached ==
    /\ ret.op = "reset" /\ ret.kind = "ok"
    /\ FreshEpisode
    /\ contractMap[filename].cached
    /\ contractMap[filename].visited # {}

(***************************************************************************)
(* Properties of the State across steps (Spec, SpecEsc).                   *)
(***************************************************************************)
\* C18: a step that fails internally leaves the controller's State as it was
\* before the step, the fields of every transaction included
FailedStepKeepsState ==
    [][(ret'.op = "step" /\ ret'.kind = "failed") => state' = state]_vars

\* C19 as claimed: the occupied slots form one run starting at index 0
ContiguousFromZero ==
    (ret.op \in {"reset", "step"} /\ state.valid) =>
        \A i \in Idx, j \in Idx :
            (i < j /\ state.txList[j] # NoTx) => state.txList[i] # NoTx

\* C19 as amended: with the escalation disabled, at every step boundary the
\* last slot is occupied whenever any slot is: the slots are filled from the
\* last index, and lower slots may be empty
OccupiedFromLast ==
    (~opts.concolic /\ ret.op \in {"reset", "step"} /\ state.valid) =>
        ((\E i \in Idx : state.txList[i] # NoTx) => state.txList[lastIndex] # NoTx)

\* after two steps the last slot is occupied and slot 0 is still empty
GapBelowLastReached ==
    /\ ~opts.concolic
    /\ ret.op = "step" /\ counter >= 2
    /\ state.txList[lastIndex] # NoTx
    /\ state.txList[0] = NoTx

\* this transition is a completed step that changed coverage()
ImprovingStep ==
    /\ ret'.op = "step" /\ ret'.kind = "ok"
    /\ ~sameCoverage(coverage(opts, contractMap, filename, contract),
                     coverage(opts', contractMap', filename', contract'))

\* C20 as claimed: after a completed step that improved coverage,
\* concolicCount is 0 and concolicWait is not smaller than at the start of the
\* step, the steps that adopted the escalation's sequence included
WaitGrowsOnImprovement ==
    [][ImprovingStep =>
          concolicCnt' = 0 /\ concolicWait' >= concolicWait]_vars

\* C20 as amended: after a completed step that improved coverage,
\* concolicCount is 0; a step of the mutation engine leaves concolicWait at
\* its start value times the penalty factor, not smaller than before; a step
\* that adopted the escalation's sequence leaves it at the shrunk value
\* max(1, wait / (reward * penalty)) times the penalty factor
WaitOnImprovement ==
    [][ImprovingStep =>
          /\ concolicCnt' = 0
          /\ ret'.branch = "mutate" =>
                /\ concolicWait' = concolicWait * concolic_penalty
                /\ concolicWait' >= concolicWait
          /\ ret'.branch = "concolic" =>
                concolicWait' =
                    Max(1, concolicWait \div (concolic_reward * concolic_penalty))
                        * concolic_penalty]_vars

\* a step adopted the escalation's sequence, improved coverage and left
\* concolicWait below the initial value
ShrunkWaitReached ==
    /\ ret.op = "step" /\ ret.kind = "ok" /\ ret.branch = "concolic"
    /\ concolicCnt = 0
    /\ concolicWait < initial_wait

(***************************************************************************)
(* The range of the escalation counters (SpecEsc).                         *)
(***************************************************************************)
\* C21: with the escalation enabled, at every step boundary concolicWait is
\* at least 1 and concolicCount lies between 0 and concolicWait
CountersInRange ==
    opts.concolic =>
        /\ concolicWait >= 1
        /\ 0 <= concolicCnt
        /\ concolicCnt <= concolicWait

\* after an adopted escalation shrank the wait to 1, a stagnant step brought
\* the count up to the wait again
CountAtShrunkWaitReached ==
    /\ opts.concolic
    /\ ret.op = "step" /\ ret.kind = "ok"
    /\ concolicWait < initial_wait
    /\ concolicCnt = concolicWait

(***************************************************************************)
(* The value of path_variaty (SpecVariety).                                *)
(***************************************************************************)
\* C22: path_variaty is the size of the symmetric difference of the two
\* JUMP-pc sets over the size of their union: it lies between 0 and 1, it is
\* 0 exactly when the two sets are equal, and it is the same in both orders
VarietyIsSetDistance ==
    (call.op = "path_variaty" /\ call.phase = "return") =>
        LET P == Jumps(call.ptraces)
            C == Jumps(call.ctraces)
            sym == (P \ C) \cup (C \ P)
            uni == P \cup C
        IN  /\ call.out[2] > 0
            /\ 0 <= call.out[1] /\ call.out[1] <= call.out[2]
            /\ uni # {} =>
                  call.out[1] * Cardinality(uni) = Cardinality(sym) * call.out[2]
            /\ (call.out[1] = 0) <=> (P = C)
            /\ call.out[1] * call.swapped[2] = call.swapped[1] * call.out[2]

\* path_variaty returned for two JUMP-pc sets that overlap and differ: the
\* reward is strictly between 0 and 1
VarietyOfOverlapReached ==
    /\ call.op = "path_variaty" /\ call.phase = "return"
    /\ Jumps(call.ptraces) \cap Jumps(call.ctraces) # {}
    /\ Jumps(call.ptraces) # Jumps(call.ctraces)
    /\ 0 < call.out[1] /\ call.out[1] < call.out[2]

====
